---------------------------- MODULE Spec2Model ----------------------------
(***************************************************************************)
(* Keyed mutual exclusion with background reclamation, as implemented by   *)
(* the two packages of werbenhu/grouplock:                                 *)
(*   grouplock.GroupLock  (src/grouplock.go)      cleanup without locking  *)
(*   klocker.Mutex        (src/unnamed/part_001)  cleanup under the mutex  *)
(* Lock, Unlock and Stop are identical in both packages; only cleanup      *)
(* differs.  Every access to shared memory (a sync.Map operation, an       *)
(* atomic add or load, a mutex operation, a channel close) is one step.    *)
(***************************************************************************)
EXTENDS Integers, Sequences, FiniteSets, TLC

\* ------------------------------------------------------------- bounds
NumCallers == 2
NumKeys == 2
MaxEntries == 3
MaxCalls == 3

Callers == 1..NumCallers
Keys == 1..NumKeys
EntryIds == 1..MaxEntries
None == 0

Variants == {"grouplock", "klocker"}

VARIABLES
    variant,       \* which package is running
    locks,         \* sync.Map locks: key -> *lockItem (None: absent)
    cleanKeys,     \* sync.Map cleanKeys, as the set of its keys
    closed,        \* closeCh has been closed
    crashed,       \* "no", or how the process died
    count,         \* lockItem.count of every allocated lockItem
    locked,        \* state of lockItem.mutex of every allocated lockItem
    pc,            \* where each caller is
    key,           \* the key argument of the caller's current call
    item,          \* lockData of the caller's Lock call
    uitem,         \* lockData of the caller's Unlock call
    spc,           \* where the cleaner goroutine is
    sk,            \* k of the Range callback in progress
    sitem,         \* lockData of the Range callback in progress
    snap,          \* the keys cleanKeys held when Range began
    visited,       \* the keys Range has passed to the callback
    keysToRemove,  \* the slice cleanup collects
    idleAtStart,   \* history: keys idle since the current pass began
    calls,         \* history: Lock calls begun so far
    alone          \* history: no other call on the key since this Lock began

vars == <<variant, locks, cleanKeys, closed, crashed, count, locked,
          pc, key, item, uitem, spc, sk, sitem, snap, visited, keysToRemove,
          idleAtStart, calls, alone>>

sharedVars == <<locks, cleanKeys, closed, crashed, count, locked>>
sweepVars == <<spc, sk, sitem, snap, visited, keysToRemove>>
callerVars == <<pc, key, item, uitem>>
histVars == <<idleAtStart, calls, alone>>

CallerPcs == {"idle", "l_add", "l_mutex", "held",
              "u_unlock", "u_dec", "u_store", "u_ret"}
SweepPcs == {"select", "range", "s_lock", "s_check", "s_delete",
             "s_unlock", "remove", "done"}

TypeOK ==
    /\ variant \in Variants
    /\ locks \in [Keys -> EntryIds \cup {None}]
    /\ cleanKeys \subseteq Keys
    /\ closed \in BOOLEAN
    /\ crashed \in {"no", "close of closed channel", "unlock of unlocked mutex"}
    /\ count \in [EntryIds -> -(NumCallers + 1)..NumCallers]
    /\ locked \in [EntryIds -> BOOLEAN]
    /\ pc \in [Callers -> CallerPcs]
    /\ key \in [Callers -> Keys \cup {None}]
    /\ item \in [Callers -> EntryIds \cup {None}]
    /\ uitem \in [Callers -> EntryIds \cup {None}]
    /\ spc \in SweepPcs
    /\ sk \in Keys \cup {None}
    /\ sitem \in EntryIds \cup {None}
    /\ snap \subseteq Keys
    /\ visited \subseteq Keys
    /\ keysToRemove \in Seq(Keys)
    /\ idleAtStart \subseteq Keys
    /\ calls \in 0..MaxCalls
    /\ alone \in [Callers -> BOOLEAN]

\* New(): empty maps, an open closeCh, the cleaner goroutine at its select.
Init ==
    /\ variant \in Variants
    /\ locks = [k \in Keys |-> None]
    /\ cleanKeys = {}
    /\ closed = FALSE
    /\ crashed = "no"
    /\ count = [e \in EntryIds |-> 0]
    /\ locked = [e \in EntryIds |-> FALSE]
    /\ pc = [c \in Callers |-> "idle"]
    /\ key = [c \in Callers |-> None]
    /\ item = [c \in Callers |-> None]
    /\ uitem = [c \in Callers |-> None]
    /\ spc = "select"
    /\ sk = None
    /\ sitem = None
    /\ snap = {}
    /\ visited = {}
    /\ keysToRemove = <<>>
    /\ idleAtStart = {}
    /\ calls = 0
    /\ alone = [c \in Callers |-> FALSE]

\* A process that panicked or hit a runtime fatal error runs no further step.
Running == crashed = "no"

\* Some call on k is between its first and its last step.
InFlight(k) == \E c \in Callers : pc[c] # "idle" /\ key[c] = k

\* ------------------------------------------------------------- the heap

\* The lockItems something still points to: the registry, a caller's
\* lockData, the cleaner's lockData.
Live ==
    {locks[k] : k \in Keys} \cup {item[c] : c \in Callers}
        \cup {uitem[c] : c \in Callers} \cup {sitem}

FreeIds == {e \in EntryIds : e \notin Live}

\* &lockItem{mutex: &sync.Mutex{}, count: 0}: the allocator hands out memory
\* nothing points to.
NewItem == CHOOSE e \in FreeIds : \A f \in FreeIds : e <= f

\* A lockItem nothing points to is garbage; its memory reads as a new
\* lockItem's (count 0, mutex free) when it is handed out again.
Reclaimed(f, live, fresh) ==
    [e \in EntryIds |-> IF e \in live THEN f[e] ELSE fresh]

\* ------------------------------------------------------------ Lock(key)

\* Lock as it would be with one lockItem for the whole registry: every key
\* is looked up in the slot of the first key.
LockLoadOrStoreOneSlot(c, k) ==
    /\ Running
    /\ pc[c] = "idle"
    /\ IF locks[1] # None
       THEN /\ item' = [item EXCEPT ![c] = locks[1]]
            /\ UNCHANGED locks
       ELSE /\ FreeIds # {}
            /\ locks' = [locks EXCEPT ![1] = NewItem]
            /\ item' = [item EXCEPT ![c] = NewItem]
    /\ key' = [key EXCEPT ![c] = k]
    /\ pc' = [pc EXCEPT ![c] = "l_add"]
    /\ calls < MaxCalls
    /\ calls' = calls + 1
    /\ idleAtStart' = idleAtStart \ {k}
    /\ alone' = [d \in Callers |->
                    IF d = c THEN ~InFlight(k)
                    ELSE alone[d] /\ key[d] # k]
    /\ UNCHANGED <<variant, cleanKeys, closed, crashed, count, locked, uitem>>
    /\ UNCHANGED sweepVars

\* gl.locks.LoadOrStore(key, &lockItem{mutex: &sync.Mutex{}, count: 0}):
\* the entry stored under k, or a fresh one (count 0, mutex free) stored now.
LockLoadOrStore(c, k) ==
    /\ Running
    /\ pc[c] = "idle"
    /\ IF locks[k] # None
       THEN /\ item' = [item EXCEPT ![c] = locks[k]]
            /\ UNCHANGED locks
       ELSE /\ FreeIds # {}
            /\ locks' = [locks EXCEPT ![k] = NewItem]
            /\ item' = [item EXCEPT ![c] = NewItem]
    /\ key' = [key EXCEPT ![c] = k]
    /\ pc' = [pc EXCEPT ![c] = "l_add"]
    /\ calls < MaxCalls
    /\ calls' = calls + 1
    /\ idleAtStart' = idleAtStart \ {k}
    /\ alone' = [d \in Callers |->
                    IF d = c THEN ~InFlight(k)
                    ELSE alone[d] /\ key[d] # k]
    /\ UNCHANGED <<variant, cleanKeys, closed, crashed, count, locked, uitem>>
    /\ UNCHANGED sweepVars

\* atomic.AddInt32(&lockData.count, 1)
LockAdd(c) ==
    /\ Running
    /\ pc[c] = "l_add"
    /\ count' = [count EXCEPT ![item[c]] = @ + 1]
    /\ pc' = [pc EXCEPT ![c] = "l_mutex"]
    /\ UNCHANGED <<variant, locks, cleanKeys, closed, crashed, locked,
                   key, item, uitem>>
    /\ UNCHANGED histVars
    /\ UNCHANGED sweepVars

\* lockData.mutex.Lock(): blocks while the mutex is locked; Lock then returns.
LockMutex(c) ==
    /\ Running
    /\ pc[c] = "l_mutex"
    /\ ~locked[item[c]]
    /\ locked' = [locked EXCEPT ![item[c]] = TRUE]
    /\ pc' = [pc EXCEPT ![c] = "held"]
    /\ alone' = [alone EXCEPT ![c] = FALSE]
    /\ UNCHANGED <<variant, locks, cleanKeys, closed, crashed, count,
                   key, item, uitem, idleAtStart, calls>>
    /\ UNCHANGED sweepVars

\* ---------------------------------------------------------- Unlock(key)

\* Unlock as it would be if a miss of its Load still marked the key pending.
UnlockLoadMarksPending(c, k) ==
    /\ Running
    /\ IF locks[k] # None
       THEN /\ uitem' = [uitem EXCEPT ![c] = locks[k]]
            /\ pc' = [pc EXCEPT ![c] = "u_unlock"]
            /\ UNCHANGED cleanKeys
       ELSE /\ uitem' = [uitem EXCEPT ![c] = None]
            /\ pc' = [pc EXCEPT ![c] = "u_ret"]
            /\ cleanKeys' = cleanKeys \cup {k}
    /\ key' = [key EXCEPT ![c] = k]
    /\ UNCHANGED <<variant, locks, closed, crashed, count, locked, item>>
    /\ UNCHANGED histVars
    /\ UNCHANGED sweepVars

\* gl.locks.Load(key): on a miss Unlock does nothing and returns.
UnlockLoad(c, k) ==
    /\ Running
    /\ IF locks[k] # None
       THEN /\ uitem' = [uitem EXCEPT ![c] = locks[k]]
            /\ pc' = [pc EXCEPT ![c] = "u_unlock"]
       ELSE /\ uitem' = [uitem EXCEPT ![c] = None]
            /\ pc' = [pc EXCEPT ![c] = "u_ret"]
    /\ key' = [key EXCEPT ![c] = k]
    /\ UNCHANGED <<variant, locks, cleanKeys, closed, crashed, count, locked, item>>
    /\ UNCHANGED histVars
    /\ UNCHANGED sweepVars

\* Unlock(key) by the caller that holds key.
Unlock(c) ==
    /\ pc[c] = "held"
    /\ UnlockLoad(c, key[c])

\* Unlock(key) by a caller that holds nothing, for a key with no entry.
UnlockUnknown(c, k) ==
    /\ pc[c] = "idle"
    /\ locks[k] = None
    /\ UnlockLoad(c, k)

\* lockData.mutex.Unlock(): sync.Mutex has no owner, so this frees the mutex
\* whoever locked it, and is a fatal runtime error on a free mutex.
UnlockMutex(c) ==
    /\ Running
    /\ pc[c] = "u_unlock"
    /\ IF locked[uitem[c]]
       THEN /\ locked' = [locked EXCEPT ![uitem[c]] = FALSE]
            /\ pc' = [pc EXCEPT ![c] = "u_dec"]
            /\ UNCHANGED crashed
       ELSE /\ crashed' = "unlock of unlocked mutex"
            /\ UNCHANGED <<locked, pc>>
    /\ UNCHANGED <<variant, locks, cleanKeys, closed, count,
                   key, item, uitem>>
    /\ UNCHANGED histVars
    /\ UNCHANGED sweepVars

\* newCount := atomic.AddInt32(&lockData.count, -1); if newCount <= 0 {...}
UnlockDec(c) ==
    /\ Running
    /\ pc[c] = "u_dec"
    /\ IF count[uitem[c]] - 1 <= 0
       THEN /\ pc' = [pc EXCEPT ![c] = "u_store"]
            /\ UNCHANGED <<key, item, uitem>>
       ELSE /\ pc' = [pc EXCEPT ![c] = "idle"]
            /\ key' = [key EXCEPT ![c] = None]
            /\ item' = [item EXCEPT ![c] = None]
            /\ uitem' = [uitem EXCEPT ![c] = None]
    /\ UNCHANGED <<variant, locks, cleanKeys, closed, crashed>>
    /\ UNCHANGED histVars
    /\ UNCHANGED sweepVars
    /\ count' = Reclaimed([count EXCEPT ![uitem[c]] = @ - 1], Live', 0)
    /\ locked' = Reclaimed(locked, Live', FALSE)

\* gl.cleanKeys.Store(key, struct{}{}); Unlock then returns.
UnlockStore(c) ==
    /\ Running
    /\ pc[c] = "u_store"
    /\ cleanKeys' = cleanKeys \cup {key[c]}
    /\ pc' = [pc EXCEPT ![c] = "idle"]
    /\ key' = [key EXCEPT ![c] = None]
    /\ item' = [item EXCEPT ![c] = None]
    /\ uitem' = [uitem EXCEPT ![c] = None]
    /\ UNCHANGED <<variant, locks, closed, crashed>>
    /\ UNCHANGED histVars
    /\ UNCHANGED sweepVars
    /\ count' = Reclaimed(count, Live', 0)
    /\ locked' = Reclaimed(locked, Live', FALSE)

\* Unlock returns from the miss of its Load.
UnlockReturn(c) ==
    /\ Running
    /\ pc[c] = "u_ret"
    /\ pc' = [pc EXCEPT ![c] = "idle"]
    /\ key' = [key EXCEPT ![c] = None]
    /\ item' = [item EXCEPT ![c] = None]
    /\ uitem' = [uitem EXCEPT ![c] = None]
    /\ UNCHANGED <<variant, locks, cleanKeys, closed, crashed>>
    /\ UNCHANGED histVars
    /\ UNCHANGED sweepVars
    /\ count' = Reclaimed(count, Live', 0)
    /\ locked' = Reclaimed(locked, Live', FALSE)

\* ---------------------------------------------------------------- Stop()

\* close(gl.closeCh): closing a closed channel panics.
Stop ==
    /\ Running
    /\ IF closed
       THEN /\ crashed' = "close of closed channel"
            /\ UNCHANGED closed
       ELSE /\ closed' = TRUE
            /\ UNCHANGED crashed
    /\ UNCHANGED <<variant, locks, cleanKeys, count, locked>>
    /\ UNCHANGED histVars
    /\ UNCHANGED callerVars
    /\ UNCHANGED sweepVars

\* ---------------------------------------------------- cleaner / cleanup

\* The keys with no call in flight whose entry, if any, has count zero.
IdleKeys ==
    {k \in Keys : ~InFlight(k) /\ (locks[k] # None => count[locks[k]] = 0)}

\* cleaner: case <-ticker.C, and cleanup begins its cleanKeys.Range.  A tick
\* may be waiting in ticker.C whatever closeCh is, and select then takes
\* either ready case.
CleanerTick ==
    /\ Running
    /\ spc = "select"
    /\ spc' = "range"
    /\ snap' = cleanKeys
    /\ visited' = {}
    /\ keysToRemove' = <<>>
    /\ idleAtStart' = IdleKeys
    /\ UNCHANGED <<calls, alone>>
    /\ UNCHANGED <<variant, sk, sitem>>
    /\ UNCHANGED sharedVars
    /\ UNCHANGED callerVars

\* cleaner: case <-gl.closeCh: return
CleanerClose ==
    /\ Running
    /\ spc = "select"
    /\ closed
    /\ spc' = "done"
    /\ UNCHANGED <<variant, sk, sitem, snap, visited, keysToRemove>>
    /\ UNCHANGED histVars
    /\ UNCHANGED sharedVars
    /\ UNCHANGED callerVars

\* The pc after the callback's gl.locks.Load(k) found an entry:
\* klocker locks the entry's mutex first, grouplock reads the count at once.
AfterLoad == IF variant = "klocker" THEN "s_lock" ELSE "s_check"

\* The pc after the callback is through with the count (and the delete):
\* klocker still has the mutex to unlock, grouplock returns true to Range.
AfterCheck == IF variant = "klocker" THEN "s_unlock" ELSE "range"

\* cleanup as it would be if it ranged over the registry's keys instead of
\* the pending ones.
RangeVisitAnyKey(k) ==
    /\ Running
    /\ spc = "range"
    /\ k \notin visited
    /\ visited' = visited \cup {k}
    /\ IF locks[k] # None
       THEN /\ sk' = k
            /\ sitem' = locks[k]
            /\ spc' = AfterLoad
       ELSE UNCHANGED <<sk, sitem, spc>>
    /\ UNCHANGED <<variant, snap, keysToRemove>>
    /\ UNCHANGED histVars
    /\ UNCHANGED sharedVars
    /\ UNCHANGED callerVars

\* Range passes k to the callback, which does gl.locks.Load(k).  Range visits
\* no key twice, every key present since it began, and a key stored meanwhile
\* or not.
RangeVisit(k) ==
    /\ Running
    /\ spc = "range"
    /\ k \in cleanKeys \ visited
    /\ visited' = visited \cup {k}
    /\ IF locks[k] # None
       THEN /\ sk' = k
            /\ sitem' = locks[k]
            /\ spc' = AfterLoad
       ELSE UNCHANGED <<sk, sitem, spc>>
    /\ UNCHANGED <<variant, snap, keysToRemove>>
    /\ UNCHANGED histVars
    /\ UNCHANGED sharedVars
    /\ UNCHANGED callerVars

\* klocker only: lockData.mutex.Lock(), a blocking acquisition.
SweepMutexLock ==
    /\ Running
    /\ spc = "s_lock"
    /\ ~locked[sitem]
    /\ locked' = [locked EXCEPT ![sitem] = TRUE]
    /\ spc' = "s_check"
    /\ UNCHANGED <<variant, locks, cleanKeys, closed, crashed, count,
                   sk, sitem, snap, visited, keysToRemove>>
    /\ UNCHANGED histVars
    /\ UNCHANGED callerVars

\* cleanup as it would be if a key whose count is positive were collected
\* for removal from cleanKeys all the same.
SweepCheckDropsKey ==
    /\ Running
    /\ spc = "s_check"
    /\ IF count[sitem] <= 0
       THEN /\ spc' = "s_delete"
            /\ UNCHANGED <<sk, sitem, keysToRemove>>
       ELSE /\ spc' = AfterCheck
            /\ keysToRemove' = Append(keysToRemove, sk)
            /\ IF variant = "klocker"
               THEN UNCHANGED <<sk, sitem>>
               ELSE sk' = None /\ sitem' = None
    /\ UNCHANGED <<variant, snap, visited>>
    /\ UNCHANGED histVars
    /\ UNCHANGED sharedVars
    /\ UNCHANGED callerVars

\* if atomic.LoadInt32(&lockData.count) <= 0 {
SweepCheck ==
    /\ Running
    /\ spc = "s_check"
    /\ IF count[sitem] <= 0
       THEN /\ spc' = "s_delete"
            /\ UNCHANGED <<sk, sitem>>
       ELSE /\ spc' = AfterCheck
            /\ IF variant = "klocker"
               THEN UNCHANGED <<sk, sitem>>
               ELSE sk' = None /\ sitem' = None
    /\ UNCHANGED <<variant, snap, visited, keysToRemove>>
    /\ UNCHANGED histVars
    /\ UNCHANGED sharedVars
    /\ UNCHANGED callerVars

\* gl.locks.Delete(k); keysToRemove = append(keysToRemove, k)
SweepDelete ==
    /\ Running
    /\ spc = "s_delete"
    /\ locks' = [locks EXCEPT ![sk] = None]
    /\ keysToRemove' = Append(keysToRemove, sk)
    /\ spc' = AfterCheck
    /\ IF variant = "klocker"
       THEN UNCHANGED <<sk, sitem>>
       ELSE sk' = None /\ sitem' = None
    /\ UNCHANGED <<variant, cleanKeys, closed, crashed, snap, visited>>
    /\ UNCHANGED histVars
    /\ UNCHANGED callerVars
    /\ count' = Reclaimed(count, Live', 0)
    /\ locked' = Reclaimed(locked, Live', FALSE)

\* cleanup as it would be if it returned from the callback without
\* lockData.mutex.Unlock().
SweepKeepsMutex ==
    /\ Running
    /\ spc = "s_unlock"
    /\ spc' = "range"
    /\ sk' = None
    /\ sitem' = None
    /\ UNCHANGED <<variant, locks, cleanKeys, closed, crashed,
                   snap, visited, keysToRemove>>
    /\ UNCHANGED histVars
    /\ UNCHANGED callerVars
    /\ count' = Reclaimed(count, Live', 0)
    /\ locked' = Reclaimed(locked, Live', FALSE)

\* klocker only: lockData.mutex.Unlock() // Unlock after operation
SweepMutexUnlock ==
    /\ Running
    /\ spc = "s_unlock"
    /\ UNCHANGED <<variant, locks, cleanKeys, closed,
                   snap, visited, keysToRemove>>
    /\ UNCHANGED histVars
    /\ UNCHANGED callerVars
    /\ IF locked[sitem]
       THEN /\ spc' = "range"
            /\ sk' = None
            /\ sitem' = None
            /\ count' = Reclaimed(count, Live', 0)
            /\ locked' = Reclaimed([locked EXCEPT ![sitem] = FALSE], Live', FALSE)
            /\ UNCHANGED crashed
       ELSE /\ crashed' = "unlock of unlocked mutex"
            /\ UNCHANGED <<count, locked, spc, sk, sitem>>

\* Range returns: every key present since it began has been visited.
RangeEnd ==
    /\ Running
    /\ spc = "range"
    /\ snap \subseteq visited
    /\ spc' = "remove"
    /\ UNCHANGED <<variant, sk, sitem, snap, visited, keysToRemove>>
    /\ UNCHANGED histVars
    /\ UNCHANGED sharedVars
    /\ UNCHANGED callerVars

\* for _, key := range keysToRemove { gl.cleanKeys.Delete(key) }
RemoveKey ==
    /\ Running
    /\ spc = "remove"
    /\ keysToRemove # <<>>
    /\ cleanKeys' = cleanKeys \ {Head(keysToRemove)}
    /\ keysToRemove' = Tail(keysToRemove)
    /\ UNCHANGED <<variant, locks, closed, crashed, count, locked,
                   spc, sk, sitem, snap, visited>>
    /\ UNCHANGED histVars
    /\ UNCHANGED callerVars

\* cleanup returns to the cleaner's select.
CleanupReturn ==
    /\ Running
    /\ spc = "remove"
    /\ keysToRemove = <<>>
    /\ spc' = "select"
    /\ snap' = {}
    /\ visited' = {}
    /\ idleAtStart' = {}
    /\ UNCHANGED <<variant, sk, sitem, keysToRemove, calls, alone>>
    /\ UNCHANGED sharedVars
    /\ UNCHANGED callerVars

\* ------------------------------------------------------- specifications

CallerStep(c) ==
    \/ \E k \in Keys : LockLoadOrStore(c, k)
    \/ LockAdd(c)
    \/ LockMutex(c)
    \/ Unlock(c)
    \/ UnlockMutex(c)
    \/ UnlockDec(c)
    \/ UnlockStore(c)
    \/ UnlockReturn(c)

SweepStep ==
    \/ CleanerTick
    \/ CleanerClose
    \/ \E k \in Keys : RangeVisit(k)
    \/ SweepMutexLock
    \/ SweepCheck
    \/ SweepDelete
    \/ SweepMutexUnlock
    \/ RangeEnd
    \/ RemoveKey
    \/ CleanupReturn

\* Callers that unlock only what they have locked, the cleaner, and Stop.
Next ==
    \/ \E c \in Callers : CallerStep(c)
    \/ SweepStep
    \/ Stop

Spec == Init /\ [][Next]_vars

\* The same, and callers that also unlock keys that have no entry.
NextUnknown ==
    \/ Next
    \/ \E c \in Callers, k \in Keys : UnlockUnknown(c, k)

SpecUnknown == Init /\ [][NextUnknown]_vars

\* The scheduler runs every goroutine that can take a step, sync.Mutex hands
\* the mutex to every waiter in turn (its starvation mode), and a caller that
\* holds a key calls Unlock.  Nothing obliges a caller to call Lock, anybody
\* to call Stop, or the ticker to tick again.
Fairness ==
    /\ \A c \in Callers :
          /\ WF_vars(LockAdd(c))
          /\ SF_vars(LockMutex(c))
          /\ WF_vars(Unlock(c))
          /\ WF_vars(UnlockMutex(c))
          /\ WF_vars(UnlockDec(c))
          /\ WF_vars(UnlockStore(c))
          /\ WF_vars(UnlockReturn(c))
    /\ WF_vars((\E k \in Keys : RangeVisit(k)) \/ SweepCheck \/ SweepDelete
                  \/ SweepMutexUnlock \/ RangeEnd \/ RemoveKey \/ CleanupReturn)
    /\ SF_vars(SweepMutexLock)

\* Stop() as a program calls it that stops the group lock at most once.
StopOnce == ~closed /\ Stop

\* The callers and the cleaner of a program that calls Stop at most once.
NextRunning ==
    \/ \E c \in Callers : CallerStep(c)
    \/ SweepStep
    \/ StopOnce

FairSpec == Init /\ [][NextRunning]_vars /\ Fairness

\* Lock(key) by a caller that is the only one to use its key: caller c uses
\* key c.
LockOwnKey(c) == c \in Keys /\ LockLoadOrStore(c, c)

\* Callers that each lock and unlock a key of their own, again and again.
SoloStep(c) ==
    \/ LockOwnKey(c)
    \/ LockAdd(c)
    \/ LockMutex(c)
    \/ Unlock(c)
    \/ UnlockMutex(c)
    \/ UnlockDec(c)
    \/ UnlockStore(c)
    \/ UnlockReturn(c)

NextSolo ==
    \/ \E c \in Callers : SoloStep(c)
    \/ SweepStep
    \/ StopOnce

FairSolo == Init /\ [][NextSolo]_vars /\ Fairness

\* ---------------------------------------------------------------- claims

\* The callers between a completed Lock(k) and the call of its Unlock(k).
Holders(k) == {c \in Callers : pc[c] = "held" /\ key[c] = k}

\* C1: for every key, at most one caller is between a completed Lock(k) and
\* its matching Unlock(k), in both packages.
C1_MutualExclusion == \A k \in Keys : Cardinality(Holders(k)) <= 1

\* The entries of k: the one in the registry and those a caller fetched in
\* Lock(k) and still refers to, its Unlock(k) not being finished.
EntriesOf(k) ==
    ({locks[k]} \cup {item[c] : c \in {d \in Callers : pc[d] # "idle" /\ key[d] = k}})
        \ {None}

\* C2: in every reachable state there is at most one entry per key, counting
\* the registry's and those callers still refer to.
C2_AtMostOneEntry == \A k \in Keys : Cardinality(EntriesOf(k)) <= 1

\* C3: no step removes from the registry an entry that a caller has fetched
\* in Lock and whose matching Unlock it has not completed.
C3_NoPrematureReclamation ==
    [][\A k \in Keys :
          (locks[k] # None /\ locks'[k] = None)
              => ~(\E c \in Callers : pc[c] # "idle" /\ item[c] = locks[k])]_vars

\* C4: the Unlock(k) of a caller that completed Lock(k) finds, and goes on to
\* release, exactly the entry its Lock acquired.
C4_UnlockPairsWithLock ==
    [][\A c \in Callers :
          (pc[c] = "held" /\ pc'[c] # "held")
              => (pc'[c] = "u_unlock" /\ uitem'[c] = item[c])]_vars

\* C5: under fair scheduling, a fair mutex and holders that unlock, every
\* Lock call that has begun returns holding its key.
C5_LockEventuallyAcquires ==
    \A c \in Callers : (pc[c] \in {"l_add", "l_mutex"}) ~> (pc[c] = "held")

\* The same with the death of the process counted as a return: it fails too,
\* the caller waiting for a mutex that no Unlock can reach any more.
C5_AcquiresOrProcessDies ==
    \A c \in Callers :
        (pc[c] \in {"l_add", "l_mutex"}) ~> (pc[c] = "held" \/ ~Running)

\* C6: a pass that began when k was idle (every Lock(k) matched by a completed
\* Unlock(k), count zero), with no Lock(k) since and Stop not called, ends
\* with no entry for k in the registry.
C6_Reclamation ==
    [][(spc # "select" /\ spc' = "select" /\ ~closed')
          => \A k \in idleAtStart : locks'[k] = None]_vars

\* C7: once Stop has returned no entry is removed from the registry.
C7_StopHaltsReclamation ==
    [][closed => \A k \in Keys : (locks[k] # None => locks'[k] # None)]_vars

\* C8: no call of Stop panics, the second and later ones included.
C8_StopIdempotent == crashed # "close of closed channel"

\* A step in which caller c calls Unlock: its first step, the Load.
UnlockCalled(c) == pc[c] \in {"idle", "held"} /\ pc'[c] \in {"u_unlock", "u_ret"}

\* The registry, the pending set and the fields of every entry of the
\* registry are left as they were.
Untouched ==
    /\ UNCHANGED <<locks, cleanKeys, closed, crashed>>
    /\ \A k \in Keys : locks[k] # None =>
          /\ count'[locks[k]] = count[locks[k]]
          /\ locked'[locks[k]] = locked[locks[k]]

\* C9: Unlock(k) with no entry for k in the registry returns having created
\* no entry, marked nothing pending, changed no entry and raised no error.
C9_UnlockUnknownIsNoop ==
    [][\A c \in Callers :
          /\ (UnlockCalled(c) /\ locks[key'[c]] = None)
                => (pc'[c] = "u_ret" /\ uitem'[c] = None /\ Untouched)
          /\ (pc[c] = "u_ret" /\ pc'[c] # "u_ret")
                => (pc'[c] = "idle" /\ Untouched)]_vars

\* A caller that holds nothing has called Unlock of a key with no entry,
\* while another key has one.
C9_Witness ==
    \E c \in Callers :
        /\ pc[c] = "u_ret"
        /\ item[c] = None
        /\ \E k \in Keys : locks[k] # None

\* The keys through which entry e is referred to.
KeysOf(e) ==
    {k \in Keys : locks[k] = e}
        \cup {key[c] : c \in {d \in Callers : item[d] = e \/ uitem[d] = e}}
        \cup (IF sitem = e THEN {sk} ELSE {})

\* C10: no entry, hence no mutex, is shared by two keys; a Lock(B) that has
\* had B to itself finds B's mutex free unless the sweep is momentarily on B,
\* whatever is held or swept on other keys; no step of Unlock ever waits.
C10_KeyIndependence ==
    /\ \A e \in EntryIds : Cardinality(KeysOf(e)) <= 1
    /\ \A c \in Callers :
          (pc[c] = "l_mutex" /\ alone[c] /\ locked[item[c]])
              => (sitem = item[c] /\ spc \in {"s_check", "s_delete", "s_unlock"})
    /\ Running => \A c \in Callers :
          /\ pc[c] = "held" => ENABLED Unlock(c)
          /\ pc[c] = "u_unlock" => ENABLED UnlockMutex(c)
          /\ pc[c] = "u_dec" => ENABLED UnlockDec(c)
          /\ pc[c] = "u_store" => ENABLED UnlockStore(c)
          /\ pc[c] = "u_ret" => ENABLED UnlockReturn(c)

\* Two callers hold different keys at once, one of them a key whose mutex
\* the sweep is waiting for.
C10_Witness ==
    \E c, d \in Callers :
        /\ pc[c] = "held" /\ pc[d] = "held"
        /\ key[c] # key[d]
        /\ spc = "s_lock" /\ sk = key[c]

\* C11: when every key is used by one caller only, that locks and unlocks it
\* repeatedly, every Lock that has begun returns with the mutex of its entry
\* locked, however the sweep interleaves.
C11_ReuseAfterRelease ==
    \A c \in Callers :
        (pc[c] \in {"l_add", "l_mutex"}) ~> (pc[c] = "held" /\ locked[item[c]])

\* A caller holds its key through an entry the sweep has removed from the
\* registry during this Lock, the key having been pending from its earlier
\* Unlock.
C11_Witness ==
    \E c \in Callers :
        /\ pc[c] = "held"
        /\ key[c] = c
        /\ locks[c] = None
        /\ calls >= 2

\* The callers whose Lock(k) has incremented the count and whose matching
\* Unlock(k) has not decremented it.
Counted(k) ==
    {c \in Callers :
        key[c] = k /\ pc[c] \in {"l_mutex", "held", "u_unlock", "u_dec", "u_ret"}}

\* C12: the count of the registry's entry for k is the number of Lock(k)
\* calls that have incremented and whose Unlock(k) has not decremented.
C12_CountAccurate ==
    \A k \in Keys :
        locks[k] # None => count[locks[k]] = Cardinality(Counted(k))

\* C13: in klocker, where cleanup holds the entry's mutex around the check
\* and the delete, the count of an entry is <= 0 when the sweep deletes it,
\* and no Lock increments the count or acquires the mutex of an entry the
\* sweep has deleted.
C13_LockingSweepRaceFree ==
    [][variant = "klocker" =>
          /\ (spc = "s_delete" /\ spc' # "s_delete") => count[sitem] <= 0
          /\ \A c \in Callers :
                (pc[c] \in {"l_add", "l_mutex"} /\ pc'[c] # pc[c])
                    => locks[key[c]] = item[c]]_vars

\* The steps of a cleanup pass in progress.
PassStep ==
    \/ \E k \in Keys : RangeVisit(k)
    \/ SweepMutexLock
    \/ SweepCheck
    \/ SweepDelete
    \/ SweepMutexUnlock
    \/ RangeEnd
    \/ RemoveKey
    \/ CleanupReturn

\* C14: a pass in progress never waits for a caller: at a pending key whose
\* mutex a caller holds it has a step to take without the holder unlocking.
C14_SweepNeverBlocks ==
    (Running /\ spc \notin {"select", "done"}) => ENABLED PassStep

\* The scheduler runs every goroutine that can take a step, the mutex is
\* fair, and the cleaner's select, both its cases ready again and again,
\* takes closeCh in the end.  A caller that holds a key may keep it for ever.
HoldFairness ==
    /\ \A c \in Callers :
          /\ WF_vars(LockAdd(c))
          /\ SF_vars(LockMutex(c))
          /\ WF_vars(UnlockMutex(c))
          /\ WF_vars(UnlockDec(c))
          /\ WF_vars(UnlockStore(c))
          /\ WF_vars(UnlockReturn(c))
    /\ WF_vars(PassStep)
    /\ SF_vars(SweepMutexLock)
    /\ SF_vars(CleanerClose)

FairHoldSpec == Init /\ [][NextRunning]_vars /\ HoldFairness

\* C15: once Stop has been called the cleaner goroutine returns (or the
\* process has died), even if callers hold pending keys for ever.
C15_StopEndsSweep == closed ~> (spc = "done" \/ ~Running)

\* The step in which the callback has read a positive count and leaves the
\* entry alone.
SkipsKey == spc = "s_check" /\ count[sitem] > 0 /\ spc' # "s_check"

\* The keys collected in keysToRemove.
Collected(q) == {q[i] : i \in 1..Len(q)}

\* C16: a pass that examines a pending key whose entry has count > 0 leaves
\* the entry in the registry and the key in the pending set: only a key
\* whose entry the pass has deleted is collected, and only a collected key
\* is removed from the pending set.
C16_SkippedKeyStaysPending ==
    [][/\ SkipsKey => UNCHANGED <<locks, cleanKeys, keysToRemove>>
       /\ Len(keysToRemove') > Len(keysToRemove)
             => /\ spc = "s_delete"
                /\ keysToRemove' = Append(keysToRemove, sk)
                /\ locks'[sk] = None
       /\ \A k \in Keys :
             (k \in cleanKeys /\ k \notin cleanKeys')
                 => (keysToRemove # <<>> /\ k = Head(keysToRemove))]_vars

\* klocker's callback has found the count of a pending key's entry positive
\* and is about to unlock: the entry is in the registry, the key pending and
\* not collected.
C16_Witness ==
    /\ spc = "s_unlock"
    /\ locks[sk] = sitem
    /\ count[sitem] > 0
    /\ sk \in cleanKeys
    /\ sk \notin Collected(keysToRemove)

\* C16 as stated: the pass leaves the entry and removes the key from the
\* pending set, at once or through its removal loop.
C16_SkippedKeyRemoved ==
    [][SkipsKey =>
          /\ UNCHANGED locks
          /\ sk \notin cleanKeys' \/ sk \in Collected(keysToRemove')]_vars

\* C17: the registry's entry for a key changes only by the sweep's delete,
\* and only while the key is pending; a key becomes pending only by the Store
\* of an Unlock; no step of the cleaner touches the entry of a key that is
\* not pending.  So the entry of a key never unlocked survives every pass.
C17_OnlySweepRemovesPending ==
    [][/\ \A k \in Keys :
             (locks[k] # None /\ locks'[k] # locks[k])
                 => /\ locks'[k] = None
                    /\ spc = "s_delete" /\ sk = k
                    /\ k \in cleanKeys
       /\ \A k \in Keys :
             (k \notin cleanKeys /\ k \in cleanKeys')
                 => \E c \in Callers : pc[c] = "u_store" /\ key[c] = k
       /\ spc' # spc =>
             \A k \in Keys :
                (k \notin cleanKeys /\ locks[k] # None)
                    => /\ locks'[k] = locks[k]
                       /\ count'[locks[k]] = count[locks[k]]
                       /\ locked'[locks[k]] = locked[locks[k]]]_vars

\* A pass has deleted another key's entry while a caller holds a key that
\* is not pending, whose entry is still in the registry.
C17_Witness ==
    /\ spc = "remove"
    /\ keysToRemove # <<>>
    /\ \E c \in Callers :
          /\ pc[c] = "held"
          /\ locks[key[c]] = item[c]
          /\ key[c] \notin cleanKeys

\* C18: whenever no Lock or Unlock call is in flight, every key that has an
\* entry in the registry is pending.
C18_IdleEntryIsPending ==
    (\A c \in Callers : pc[c] = "idle")
        => \A k \in Keys : locks[k] # None => k \in cleanKeys

\* C19: no mutex.Unlock() finds its mutex free, and the mutex an Unlock(k)
\* releases is that of the entry its caller's Lock(k) acquired.
C19_UnlocksOwnLockedMutex ==
    [][/\ crashed' # "unlock of unlocked mutex"
       /\ \A c \in Callers :
             (pc[c] = "u_unlock" /\ pc'[c] = "u_dec") => uitem[c] = item[c]]_vars

\* C20: the count of every entry, in the registry or referred to by a
\* caller, is never negative.
C20_CountNonNegative == \A e \in Live \ {None} : count[e] >= 0

\* C21: whenever no cleanup pass is in progress and no Lock or Unlock call
\* is in flight, every pending key has an entry in the registry.
C21_NoStalePendingKey ==
    (spc \in {"select", "done"} /\ \A c \in Callers : pc[c] = "idle")
        => \A k \in cleanKeys : locks[k] # None

====
